---- MODULE Spec2Model ----
(***************************************************************************)
(* ToolShare (vt_proje): the reservation ledger, the ratings and the read  *)
(* queries of src/main.py, the double-booking trigger function of          *)
(* src/fix_overlap.py and the maintenance scripts src/migrate_db.py and    *)
(* src/fix_overlap.py.                                                     *)
(*                                                                         *)
(* The four tables (users, tools, reservations, ratings), the in-process   *)
(* session map and the HTTP response of the last request are the state.    *)
(* Dates are day numbers (the ordering of the TIMESTAMP values the date    *)
(* strings of the form are cast to).                                       *)
(***************************************************************************)
EXTENDS Integers, FiniteSets, Sequences, Bags, TLC

VARIABLES
    users,          \* users table: user_id -> row
    tools,          \* tools table: tool_id -> row
    reservations,   \* reservations table: set of rows
    ratings,        \* ratings table: bag of rows (rating_id and comment left out)
    user_sessions,  \* main.py user_sessions: session_id -> session dict
    route,          \* the route of the last request
    response,       \* the redirect answered to the last request
    now,            \* CURRENT_TIMESTAMP of the next write transaction
    next_reservation_id, \* the reservation_id sequence
    txn,            \* per server process: the open transaction of its request
    functions       \* the database functions the maintenance scripts install

vars == <<users, tools, reservations, ratings, user_sessions, route, response,
          now, next_reservation_id, txn, functions>>

----------------------------------------------------------------------------
(* Bounds *)

\* number of write transactions (CURRENT_TIMESTAMP values) explored
MaxClock == 3

\* number of server processes sharing the database in SpecConc
MaxProcs == 2

Procs == 1..MaxProcs

----------------------------------------------------------------------------
(* Inputs of the requests *)

\* session_id cookies of requests: those of the three sessions, and one that
\* is in no session ("none": no cookie, or a cookie that was never issued)
SessionCookies == {"s1", "s2", "s3"}

AnonymousCookies == {"none"}

Cookies == SessionCookies \cup AnonymousCookies

\* (tool_id, start_date, end_date) forms posted to /reservations/add: on tool 1
\* two touching intervals, one that overlaps both and an empty one; on tool 2
\* one that overlaps every interval asked of tool 1
ReservationInputs ==
    {<<1, 1, 5>>, <<1, 5, 10>>, <<1, 4, 6>>, <<1, 5, 5>>, <<2, 4, 6>>}

\* status values posted to /reservations/update
StatusInputs == {"pending", "approved", "completed", "cancelled"}

ActiveStatuses == {"pending", "approved"}

----------------------------------------------------------------------------
(* Exception messages and redirects *)

OwnToolMsg == "You cannot reserve your own tool."

AlreadyReservedMsg == "This tool is already reserved for the selected dates."

NoError == "ok"

\* "already reserved" in error_msg.lower()
ContainsAlreadyReserved(error_msg) == error_msg = AlreadyReservedMsg

\* "your own tool" in error_msg.lower()
ContainsYourOwnTool(error_msg) == error_msg = OwnToolMsg

\* the routes of the three reservation handlers
AddRoute == "/reservations/add"

UpdateRoute == "/reservations/update/{reservation_id}"

DeleteRoute == "/reservations/delete/{reservation_id}"

LoginRequired == <<"/?error=login_required", "">>

ReservationCreated == <<"/dashboard?message=reservation_created", "">>

TriggerAlreadyReserved == <<"/dashboard?error=trigger_already_reserved", "">>

TriggerOwnTool == <<"/dashboard?error=trigger_own_tool", "">>

ReservationFailed(error_msg) == <<"/dashboard?error=reservation_failed", error_msg>>

StatusUpdated(status) == <<"/dashboard?message=status_updated", status>>

UpdateFailed(error_msg) == <<"/dashboard?error=update_failed", error_msg>>

ReservationCancelled == <<"/dashboard?message=reservation_cancelled", "">>

----------------------------------------------------------------------------
(* Helpers *)

\* the None of Optional[dict]
None == [user_id |-> 0, username |-> "", role |-> "", trust_score |-> <<0, 1>>]

get_current_user(session_id) ==
    IF session_id \in DOMAIN user_sessions
    THEN user_sessions[session_id]
    ELSE None

is_admin(user) == user["role"] = "admin"

----------------------------------------------------------------------------
(* Database functions (fix_overlap.py) *)

\* mutants of ConflictsWith: the end date compared with the end date; the
\* non-strict comparisons of the older check_tool_availability; pending
\* reservations left out; approved reservations left out
ConflictsWith_EndTwice(r, new_row) ==
    /\ r.tool_id = new_row.tool_id
    /\ r.reservation_id # new_row.reservation_id
    /\ r.status \in {"pending", "approved"}
    /\ r.start_date < new_row.end_date
    /\ r.end_date > new_row.end_date

ConflictsWith_NonStrict(r, new_row) ==
    /\ r.tool_id = new_row.tool_id
    /\ r.reservation_id # new_row.reservation_id
    /\ r.status \in {"pending", "approved"}
    /\ r.start_date <= new_row.end_date
    /\ r.end_date >= new_row.start_date

ConflictsWith_ApprovedOnly(r, new_row) ==
    /\ r.tool_id = new_row.tool_id
    /\ r.reservation_id # new_row.reservation_id
    /\ r.status = "approved"
    /\ r.start_date < new_row.end_date
    /\ r.end_date > new_row.start_date

ConflictsWith_PendingOnly(r, new_row) ==
    /\ r.tool_id = new_row.tool_id
    /\ r.reservation_id # new_row.reservation_id
    /\ r.status = "pending"
    /\ r.start_date < new_row.end_date
    /\ r.end_date > new_row.start_date

\* mutant of ConflictsWith: the status of the other reservation not looked at
ConflictsWith_AnyStatus(r, new_row) ==
    /\ r.tool_id = new_row.tool_id
    /\ r.reservation_id # new_row.reservation_id
    /\ r.start_date < new_row.end_date
    /\ r.end_date > new_row.start_date

\* mutant of ConflictsWith: the row being written counted among the others
ConflictsWith_SelfIncluded(r, new_row) ==
    /\ r.tool_id = new_row.tool_id
    /\ r.status \in ActiveStatuses
    /\ r.start_date < new_row.end_date
    /\ r.end_date > new_row.start_date

\* the WHERE clause of the conflict count in fn_prevent_double_booking
ConflictsWith(r, new_row) ==
    /\ r.tool_id = new_row.tool_id
    /\ r.reservation_id # new_row.reservation_id
    /\ r.status \in ActiveStatuses
    /\ r.start_date < new_row.end_date
    /\ r.end_date > new_row.start_date

\* mutant of fn_prevent_double_booking: the own-tool check left out
fn_prevent_double_booking_NoOwnerCheck(new_row, visible) ==
    LET v_conflict_count ==
            Cardinality({r \in visible :
                /\ r.tool_id = new_row.tool_id
                /\ r.reservation_id # new_row.reservation_id
                /\ r.status \in {"pending", "approved"}
                /\ r.start_date < new_row.end_date
                /\ r.end_date > new_row.start_date})
    IN  IF v_conflict_count > 0 THEN AlreadyReservedMsg
        ELSE NoError

\* mutant of fn_prevent_double_booking: a tool that is not marked available
\* is refused as already reserved
fn_prevent_double_booking_ToolStatus(new_row, visible) ==
    LET v_tool_owner_id ==
            IF new_row.tool_id \in DOMAIN tools THEN tools[new_row.tool_id].owner_id ELSE 0
        v_conflict_count ==
            Cardinality({r \in visible : ConflictsWith(r, new_row)})
    IN  IF v_tool_owner_id = new_row.borrower_id THEN OwnToolMsg
        ELSE IF v_conflict_count > 0 THEN AlreadyReservedMsg
        ELSE IF tools[new_row.tool_id].status # "available" THEN AlreadyReservedMsg
        ELSE NoError

\* the trigger function, run on the rows the statement can see; the value is
\* the message of the exception it raises, or NoError when it returns NEW
fn_prevent_double_booking(new_row, visible) ==
    LET v_tool_owner_id ==
            IF new_row.tool_id \in DOMAIN tools THEN tools[new_row.tool_id].owner_id ELSE 0
        v_conflict_count ==
            Cardinality({r \in visible : ConflictsWith(r, new_row)})
    IN  IF v_tool_owner_id = new_row.borrower_id THEN OwnToolMsg
        ELSE IF v_conflict_count > 0 THEN AlreadyReservedMsg
        ELSE NoError

\* trg_prevent_double_booking runs the function before an INSERT on reservations
TriggerOnInsert == TRUE

\* ... and before an UPDATE on reservations
TriggerOnUpdate == TRUE

----------------------------------------------------------------------------
(* Initial state *)

InitUsers ==
    (1 :> [username |-> "u1", password_hash |-> "pw1", role |-> "user",
           trust_score |-> <<0, 1>>]) @@
    (2 :> [username |-> "u2", password_hash |-> "pw2", role |-> "user",
           trust_score |-> <<0, 1>>]) @@
    (3 :> [username |-> "admin", password_hash |-> "pw3", role |-> "admin",
           trust_score |-> <<0, 1>>])

InitTools ==
    (1 :> [owner_id |-> 1, name |-> "drill", status |-> "available"]) @@
    (2 :> [owner_id |-> 2, name |-> "saw", status |-> "available"])

\* the session dict login stores for a user row
SessionOf(user_id) ==
    [user_id |-> user_id,
     username |-> InitUsers[user_id].username,
     role |-> InitUsers[user_id].role,
     trust_score |-> InitUsers[user_id].trust_score]

InitSessions ==
    ("s1" :> SessionOf(1)) @@ ("s2" :> SessionOf(2)) @@ ("s3" :> SessionOf(3))

IdleTxn == [state |-> "idle", row |-> <<>>]

\* the functions in the database once fix_overlap.py has run: the comparison
\* each uses on the endpoints of two intervals
InstalledByFixOverlap ==
    [check_tool_availability |-> "strict", fn_prevent_double_booking |-> "strict"]

Init ==
    /\ users = InitUsers
    /\ tools = InitTools
    /\ reservations = {}
    /\ ratings = EmptyBag
    /\ user_sessions = InitSessions
    /\ route = ""
    /\ response = <<"", "">>
    /\ now = 0
    /\ next_reservation_id = 1
    /\ txn = [p \in Procs |-> IdleTxn]
    /\ functions = InstalledByFixOverlap

----------------------------------------------------------------------------
(* The INSERT and UPDATE statements on reservations, with their trigger *)

\* mutant of NewReservation: start_date and end_date bound the other way round
NewReservation_DatesSwapped(tool_id, borrower_id, start_date, end_date) ==
    [reservation_id |-> next_reservation_id,
     tool_id |-> tool_id,
     borrower_id |-> borrower_id,
     start_date |-> end_date,
     end_date |-> start_date,
     status |-> "pending",
     last_updated |-> now]

\* the row of INSERT INTO reservations in add_reservation
NewReservation(tool_id, borrower_id, start_date, end_date) ==
    [reservation_id |-> next_reservation_id,
     tool_id |-> tool_id,
     borrower_id |-> borrower_id,
     start_date |-> start_date,
     end_date |-> end_date,
     status |-> "pending",
     last_updated |-> now]

\* the error of INSERT INTO reservations for row NEW, or NoError
InsertError(new_row, visible) ==
    IF TriggerOnInsert THEN fn_prevent_double_booking(new_row, visible) ELSE NoError

\* the error of the UPDATE that turns a row into NEW, or NoError
UpdateError(new_row, visible) ==
    IF TriggerOnUpdate THEN fn_prevent_double_booking(new_row, visible) ELSE NoError

\* mutant of UpdateMatches: the EXISTS clause on the tool's owner left out
UpdateMatches_AnyUser(user, reservation_id) ==
    {r \in reservations : r.reservation_id = reservation_id}

\* the rows the UPDATE of update_reservation_status matches
UpdateMatches(user, reservation_id) ==
    {r \in reservations :
        /\ r.reservation_id = reservation_id
        /\ \E t \in DOMAIN tools :
              /\ t = r.tool_id
              /\ (tools[t].owner_id = user["user_id"] \/ is_admin(user))}

\* mutant of DeleteMatches: the tool's owner may delete too, as in delete_tool
DeleteMatches_OwnerToo(user, reservation_id) ==
    {r \in reservations :
        /\ r.reservation_id = reservation_id
        /\ (\/ r.borrower_id = user["user_id"]
            \/ tools[r.tool_id].owner_id = user["user_id"]
            \/ is_admin(user))}

\* the rows the DELETE of delete_reservation matches
DeleteMatches(user, reservation_id) ==
    {r \in reservations :
        /\ r.reservation_id = reservation_id
        /\ (r.borrower_id = user["user_id"] \/ is_admin(user))}

----------------------------------------------------------------------------
(* Request handlers, each one transaction (one server process) *)

add_reservation(session_id, tool_id, start_date, end_date) ==
    /\ route' = AddRoute
    /\ LET user == get_current_user(session_id)
           new_row == NewReservation(tool_id, user["user_id"], start_date, end_date)
           error_msg == InsertError(new_row, reservations)
       IN  IF user = None
           THEN /\ response' = LoginRequired
                /\ UNCHANGED <<reservations, now, next_reservation_id>>
           ELSE IF error_msg = NoError
           THEN /\ now < MaxClock
                /\ reservations' = reservations \cup {new_row}
                /\ next_reservation_id' = next_reservation_id + 1
                /\ now' = now + 1
                /\ response' = ReservationCreated
           ELSE /\ response' =
                     IF ContainsAlreadyReserved(error_msg) THEN TriggerAlreadyReserved
                     ELSE IF ContainsYourOwnTool(error_msg) THEN TriggerOwnTool
                     ELSE ReservationFailed(error_msg)
                /\ UNCHANGED <<reservations, now, next_reservation_id>>
    /\ UNCHANGED <<users, tools, ratings, user_sessions, txn, functions>>

update_reservation_status(session_id, reservation_id, status) ==
    /\ route' = UpdateRoute
    /\ LET user == get_current_user(session_id)
           matched == UpdateMatches(user, reservation_id)
       IN  IF user = None
           THEN /\ response' = LoginRequired
                /\ UNCHANGED <<reservations, now>>
           ELSE IF matched = {}
           THEN /\ response' = StatusUpdated(status)
                /\ UNCHANGED <<reservations, now>>
           ELSE LET r == CHOOSE x \in matched : TRUE
                    new_row == [r EXCEPT !.status = status, !.last_updated = now]
                    error_msg == UpdateError(new_row, reservations)
                IN  IF error_msg = NoError
                    THEN /\ now < MaxClock
                         /\ reservations' = (reservations \ {r}) \cup {new_row}
                         /\ now' = now + 1
                         /\ response' = StatusUpdated(status)
                    ELSE /\ response' = UpdateFailed(error_msg)
                         /\ UNCHANGED <<reservations, now>>
    /\ UNCHANGED <<users, tools, ratings, user_sessions, next_reservation_id, txn, functions>>

delete_reservation(session_id, reservation_id) ==
    /\ route' = DeleteRoute
    /\ LET user == get_current_user(session_id)
       IN  IF user = None
           THEN /\ response' = LoginRequired
                /\ UNCHANGED reservations
           ELSE /\ reservations' = reservations \ DeleteMatches(user, reservation_id)
                /\ response' = ReservationCancelled
    /\ UNCHANGED <<users, tools, ratings, user_sessions, now, next_reservation_id, txn, functions>>

----------------------------------------------------------------------------
(* Specification: the requests of one server process, one at a time *)

\* reservation ids a request may name: those of the table and one of no row
ReservationIdInputs == {r.reservation_id : r \in reservations} \cup {next_reservation_id}

AddReservation ==
    \E c \in SessionCookies, f \in ReservationInputs :
        add_reservation(c, f[1], f[2], f[3])

UpdateReservationStatus ==
    \E c \in SessionCookies, id \in ReservationIdInputs, s \in StatusInputs :
        update_reservation_status(c, id, s)

DeleteReservation ==
    \E c \in SessionCookies, id \in ReservationIdInputs :
        delete_reservation(c, id)

\* a request without a session returns before it reads its other parameters
AnonymousAdd ==
    \E c \in AnonymousCookies : add_reservation(c, 1, 1, 5)

AnonymousUpdate ==
    \E c \in AnonymousCookies : update_reservation_status(c, 1, "approved")

AnonymousDelete ==
    \E c \in AnonymousCookies : delete_reservation(c, 1)

Next ==
    \/ AddReservation
    \/ UpdateReservationStatus
    \/ DeleteReservation
    \/ AnonymousAdd
    \/ AnonymousUpdate
    \/ AnonymousDelete

Spec == Init /\ [][Next]_vars

----------------------------------------------------------------------------
(* SpecConc: several server processes on the one database.  Each process   *)
(* handles one /reservations/add request in two steps, db.execute (the     *)
(* INSERT with its trigger, inside the transaction begun by the session)   *)
(* and db.commit.  Under READ COMMITTED the trigger's SELECT sees the      *)
(* committed rows only; it takes no lock.                                  *)

\* db.execute of add_reservation in process p
txn_execute(p, session_id, tool_id, start_date, end_date) ==
    /\ txn[p].state = "idle"
    /\ now < MaxClock
    /\ route' = AddRoute
    /\ LET user == get_current_user(session_id)
           new_row == NewReservation(tool_id, user["user_id"], start_date, end_date)
           error_msg == InsertError(new_row, reservations)
       IN  IF error_msg = NoError
           THEN /\ txn' = [txn EXCEPT ![p] = [state |-> "open", row |-> new_row]]
                /\ next_reservation_id' = next_reservation_id + 1
                /\ now' = now + 1
                /\ UNCHANGED response
           ELSE /\ txn' = [txn EXCEPT ![p] = [state |-> "rolled_back", row |-> new_row]]
                /\ response' =
                     IF ContainsAlreadyReserved(error_msg) THEN TriggerAlreadyReserved
                     ELSE IF ContainsYourOwnTool(error_msg) THEN TriggerOwnTool
                     ELSE ReservationFailed(error_msg)
                /\ UNCHANGED <<next_reservation_id, now>>
    /\ UNCHANGED <<users, tools, reservations, ratings, user_sessions, functions>>

\* db.commit of add_reservation in process p
txn_commit(p) ==
    /\ txn[p].state = "open"
    /\ route' = AddRoute
    /\ reservations' = reservations \cup {txn[p].row}
    /\ txn' = [txn EXCEPT ![p].state = "committed"]
    /\ response' = ReservationCreated
    /\ UNCHANGED <<users, tools, ratings, user_sessions, now, next_reservation_id, functions>>

TxnExecute ==
    \E p \in Procs, c \in SessionCookies, f \in ReservationInputs :
        txn_execute(p, c, f[1], f[2], f[3])

TxnCommit ==
    \E p \in Procs : txn_commit(p)

NextConc ==
    \/ TxnExecute
    \/ TxnCommit

SpecConc == Init /\ [][NextConc]_vars

----------------------------------------------------------------------------
(* Ratings: add_rating of main.py, the CHECK constraint it names and the   *)
(* trust-score trigger its docstring names.  A trust score is the fraction *)
(* <<numerator, denominator>> in lowest terms.                             *)

\* number of rows of the ratings table explored
MaxRatings == 4

RatingRoute == "/ratings/add"

RatingSubmitted == <<"/dashboard?message=rating_submitted", "">>

RatingCheckConstraint == <<"/dashboard?error=check_constraint_score", "">>

RatingFailed(error_msg) == <<"/dashboard?error=rating_failed", error_msg>>

ChkRatingScoreMsg == "violates check constraint chk_rating_score"

ForeignKeyMsg == "violates foreign key constraint"

\* "chk_rating_score" in error_msg.lower()
ContainsChkRatingScore(error_msg) == error_msg = ChkRatingScoreMsg

\* mutant of chk_rating_score: the lower end of the range left open
chk_rating_score_NoLowerEnd(score) == score <= 5

\* CHECK constraint chk_rating_score of ratings: the score is between 1 and 5
chk_rating_score(score) == score >= 1 /\ score <= 5

\* the rows a rating refers to exist
ratings_foreign_keys(new_row) ==
    /\ \E r \in reservations : r.reservation_id = new_row.reservation_id
    /\ new_row.rater_id \in DOMAIN users
    /\ new_row.rated_user_id \in DOMAIN users

\* mutant of NewRating: rater and rated user bound the other way round
NewRating_UsersSwapped(reservation_id, rater_id, rated_user_id, score) ==
    [reservation_id |-> reservation_id,
     rater_id |-> rated_user_id,
     rated_user_id |-> rater_id,
     score |-> score]

\* the row of INSERT INTO ratings in add_rating
NewRating(reservation_id, rater_id, rated_user_id, score) ==
    [reservation_id |-> reservation_id,
     rater_id |-> rater_id,
     rated_user_id |-> rated_user_id,
     score |-> score]

RECURSIVE GCD(_, _)
GCD(a, b) == IF b = 0 THEN a ELSE GCD(b, a % b)

Fraction(num, den) == <<num \div GCD(num, den), den \div GCD(num, den)>>

\* the rows of a ratings table that rate a user
RatingsOf(table, user_id) == {r \in BagToSet(table) : r.rated_user_id = user_id}

RECURSIVE SumScore(_, _)
SumScore(table, rows) ==
    IF rows = {} THEN 0
    ELSE LET r == CHOOSE x \in rows : TRUE
         IN  r.score * CopiesIn(r, table) + SumScore(table, rows \ {r})

RECURSIVE CountScore(_, _)
CountScore(table, rows) ==
    IF rows = {} THEN 0
    ELSE LET r == CHOOSE x \in rows : TRUE
         IN  CopiesIn(r, table) + CountScore(table, rows \ {r})

\* trg_update_user_trust_score: the mean of the scores the rows of the table
\* give the user, 0 when there is none
fn_update_user_trust_score(table, user_id) ==
    LET rows == RatingsOf(table, user_id)
    IN  IF rows = {} THEN <<0, 1>>
        ELSE Fraction(SumScore(table, rows), CountScore(table, rows))

\* the error of INSERT INTO ratings for a row, or NoError; the CHECK constraint
\* is tested when the row is formed, the foreign keys at the end of the statement
RatingInsertError(new_row) ==
    IF ~chk_rating_score(new_row.score) THEN ChkRatingScoreMsg
    ELSE IF ~ratings_foreign_keys(new_row) THEN ForeignKeyMsg
    ELSE NoError

add_rating(session_id, reservation_id, rated_user_id, score) ==
    /\ route' = RatingRoute
    /\ LET user == get_current_user(session_id)
           new_row == NewRating(reservation_id, user["user_id"], rated_user_id, score)
           error_msg == RatingInsertError(new_row)
       IN  IF user = None
           THEN /\ response' = LoginRequired
                /\ UNCHANGED <<ratings, users>>
           ELSE IF error_msg = NoError
           THEN /\ BagCardinality(ratings) < MaxRatings
                /\ ratings' = ratings (+) SetToBag({new_row})
                /\ users' = [users EXCEPT ![new_row.rated_user_id].trust_score =
                                fn_update_user_trust_score(ratings', new_row.rated_user_id)]
                /\ response' = RatingSubmitted
           ELSE /\ response' =
                     IF ContainsChkRatingScore(error_msg) THEN RatingCheckConstraint
                     ELSE RatingFailed(error_msg)
                /\ UNCHANGED <<ratings, users>>
    /\ UNCHANGED <<tools, reservations, user_sessions, now, next_reservation_id,
                   txn, functions>>

----------------------------------------------------------------------------
(* Read queries: dashboard and search_tools of main.py *)

DashboardRoute == "/dashboard"

SearchRoute == "/tools/search"

\* mutant of top_rated_users: HAVING AVG(score) >= 4.0
top_rated_users_AtLeast4 ==
    {u \in DOMAIN users :
        /\ RatingsOf(ratings, u) # {}
        /\ SumScore(ratings, RatingsOf(ratings, u))
              >= 4 * CountScore(ratings, RatingsOf(ratings, u))}

\* users joined with their ratings, HAVING AVG(score) > 4.0
top_rated_users ==
    {u \in DOMAIN users :
        /\ RatingsOf(ratings, u) # {}
        /\ SumScore(ratings, RatingsOf(ratings, u))
              > 4 * CountScore(ratings, RatingsOf(ratings, u))}

\* tools EXCEPT the tools joined with reservations
never_reserved_tools ==
    {t \in DOMAIN tools : ~(\E r \in reservations : r.tool_id = t)}

\* tools WHERE status = 'available'
all_available_tools == {t \in DOMAIN tools : tools[t].status = "available"}

\* the completed reservations the user took part in and has not rated yet
ratable_reservations(user) ==
    {r.reservation_id : r \in
        {x \in reservations :
            /\ x.tool_id \in DOMAIN tools
            /\ tools[x.tool_id].owner_id \in DOMAIN users
            /\ x.borrower_id \in DOMAIN users
            /\ x.status = "completed"
            /\ (x.borrower_id = user["user_id"] \/ tools[x.tool_id].owner_id = user["user_id"])
            /\ ~(\E rt \in BagToSet(ratings) :
                    /\ rt.reservation_id = x.reservation_id
                    /\ rt.rater_id = user["user_id"])}}

\* the context dashboard hands to the template
DashboardPage(user) ==
    <<"dashboard.html",
      [top_rated_users |-> top_rated_users,
       never_reserved_tools |-> never_reserved_tools,
       all_available_tools |-> all_available_tools,
       ratable_reservations |-> ratable_reservations(user)]>>

\* name ILIKE '%q%' on the names of the model, which share no letters
ILike(name, q) == q = "" \/ q = name

SearchInputs == {"saw", "hammer"}

SearchPage(q) ==
    <<"dashboard.html",
      [search_query |-> q,
       search_results |->
           {t \in DOMAIN tools :
               tools[t].owner_id \in DOMAIN users /\ ILike(tools[t].name, q)}]>>

\* mutant of dashboard: the session's copy of the trust score is refreshed
\* from the users table
dashboard_RefreshesSession(session_id) ==
    /\ route' = DashboardRoute
    /\ LET user == get_current_user(session_id)
       IN  IF user = None
           THEN /\ response' = LoginRequired
                /\ UNCHANGED user_sessions
           ELSE /\ response' = DashboardPage(user)
                /\ user_sessions' =
                       [user_sessions EXCEPT ![session_id].trust_score =
                           users[user["user_id"]].trust_score]
    /\ UNCHANGED <<users, tools, reservations, ratings, now,
                   next_reservation_id, txn, functions>>

dashboard(session_id) ==
    /\ route' = DashboardRoute
    /\ LET user == get_current_user(session_id)
       IN  IF user = None
           THEN response' = LoginRequired
           ELSE response' = DashboardPage(user)
    /\ UNCHANGED <<users, tools, reservations, ratings, user_sessions, now,
                   next_reservation_id, txn, functions>>

search_tools(session_id, q) ==
    /\ route' = SearchRoute
    /\ response' = SearchPage(q)
    /\ UNCHANGED <<users, tools, reservations, ratings, user_sessions, now,
                   next_reservation_id, txn, functions>>

----------------------------------------------------------------------------
(* SpecRatings: the requests of one server process, one at a time, on a    *)
(* database that holds a completed and a pending reservation of tool 1,    *)
(* both by user 2                                                          *)

RatedReservations ==
    {[reservation_id |-> 1, tool_id |-> 1, borrower_id |-> 2, start_date |-> 1,
      end_date |-> 5, status |-> "completed", last_updated |-> 1],
     [reservation_id |-> 2, tool_id |-> 1, borrower_id |-> 2, start_date |-> 5,
      end_date |-> 10, status |-> "pending", last_updated |-> 2]}

\* (reservation_id, rated_user_id, score) forms posted to /ratings/add: four
\* scores for user 1 on the completed reservation, a score on the pending one,
\* a score for user 2, the scores next to the range, and ids of no row
RatingInputs ==
    {<<1, 1, 5>>, <<1, 1, 4>>, <<1, 1, 3>>, <<1, 1, 2>>, <<2, 1, 5>>, <<1, 2, 4>>,
     <<1, 1, 0>>, <<1, 1, 6>>, <<3, 1, 5>>, <<1, 4, 5>>}

InitRatings ==
    /\ users = InitUsers
    /\ tools = InitTools
    /\ reservations = RatedReservations
    /\ ratings = EmptyBag
    /\ user_sessions = InitSessions
    /\ route = AddRoute
    /\ response = ReservationCreated
    /\ now = 3
    /\ next_reservation_id = 3
    /\ txn = [p \in Procs |-> IdleTxn]
    /\ functions = InstalledByFixOverlap

\* the sessions that post ratings: user 2, the borrower of both reservations,
\* and user 3, who took part in neither
RatingCookies == {"s2", "s3"}

AddRating ==
    \E c \in RatingCookies, f \in RatingInputs : add_rating(c, f[1], f[2], f[3])

AnonymousRating ==
    \E c \in AnonymousCookies : add_rating(c, 1, 1, 5)

Dashboard ==
    \E c \in Cookies : dashboard(c)

\* search_tools hands the user to the template and does nothing else with it
SearchTools ==
    \E c \in AnonymousCookies, q \in SearchInputs : search_tools(c, q)

NextRatings ==
    \/ AddRating
    \/ AnonymousRating
    \/ Dashboard
    \/ SearchTools

SpecRatings == InitRatings /\ [][NextRatings]_vars

----------------------------------------------------------------------------
(* SpecRatingsConc: several server processes on the one database, each     *)
(* handling one /ratings/add request.  db.execute runs the INSERT and the  *)
(* trigger inside the transaction: the trigger reads the ratings its       *)
(* statement can see (under READ COMMITTED the committed rows and the      *)
(* transaction's own row), then updates the rated user's row, which waits  *)
(* while another open transaction has updated that row.  db.commit makes   *)
(* both writes visible.                                                    *)

\* forms posted to /ratings/add by the concurrent requests
ConcRatingInputs == {<<1, 1, 5>>, <<1, 1, 2>>, <<1, 2, 4>>, <<1, 1, 6>>}

\* db.execute of add_rating in process p, up to the trigger's read
rating_insert(p, session_id, reservation_id, rated_user_id, score) ==
    /\ txn[p].state = "idle"
    /\ route' = RatingRoute
    /\ LET user == get_current_user(session_id)
           new_row == NewRating(reservation_id, user["user_id"], rated_user_id, score)
           error_msg == RatingInsertError(new_row)
       IN  IF error_msg = NoError
           THEN /\ txn' = [txn EXCEPT ![p] =
                       [state |-> "inserted", row |-> new_row,
                        v_avg |-> fn_update_user_trust_score(
                                      ratings (+) SetToBag({new_row}), rated_user_id)]]
                /\ UNCHANGED response
           ELSE /\ txn' = [txn EXCEPT ![p] = [state |-> "rolled_back", row |-> new_row]]
                /\ response' =
                     IF ContainsChkRatingScore(error_msg) THEN RatingCheckConstraint
                     ELSE RatingFailed(error_msg)
    /\ UNCHANGED <<users, tools, reservations, ratings, user_sessions, now,
                   next_reservation_id, functions>>

\* the trigger's UPDATE of the rated user's row in process p
rating_update_user(p) ==
    /\ txn[p].state = "inserted"
    /\ \A q \in Procs \ {p} :
          ~(txn[q].state = "open" /\ txn[q].row.rated_user_id = txn[p].row.rated_user_id)
    /\ txn' = [txn EXCEPT ![p].state = "open"]
    /\ UNCHANGED <<users, tools, reservations, ratings, user_sessions, route,
                   response, now, next_reservation_id, functions>>

\* db.commit of add_rating in process p
rating_commit(p) ==
    /\ txn[p].state = "open"
    /\ route' = RatingRoute
    /\ ratings' = ratings (+) SetToBag({txn[p].row})
    /\ users' = [users EXCEPT ![txn[p].row.rated_user_id].trust_score = txn[p].v_avg]
    /\ txn' = [txn EXCEPT ![p].state = "committed"]
    /\ response' = RatingSubmitted
    /\ UNCHANGED <<tools, reservations, user_sessions, now, next_reservation_id,
                   functions>>

RatingInsert ==
    \E p \in Procs, c \in RatingCookies, f \in ConcRatingInputs :
        rating_insert(p, c, f[1], f[2], f[3])

RatingUpdateUser ==
    \E p \in Procs : rating_update_user(p)

RatingCommit ==
    \E p \in Procs : rating_commit(p)

NextRatingsConc ==
    \/ RatingInsert
    \/ RatingUpdateUser
    \/ RatingCommit

SpecRatingsConc == InitRatings /\ [][NextRatingsConc]_vars

----------------------------------------------------------------------------
(* SpecScenario: one client plays the end-to-end scenario against the      *)
(* empty ledger, each request after the answer to the one before: a user   *)
(* reserves another user's tool, asks for it again for an interval that    *)
(* overlaps the first, the owner approves and completes the reservation,   *)
(* and the borrower rates the owner 5.                                     *)

\* the intervals over five days, 2024-06-01 to 2024-06-05
ScenarioIntervals == {iv \in (1..5) \X (1..5) : iv[1] < iv[2]}

\* the cookie of a user's session
CookieOf(user_id) == CHOOSE c \in SessionCookies : user_sessions[c]["user_id"] = user_id

scenario_reserve(session_id, tool_id, iv) ==
    /\ route = ""
    /\ get_current_user(session_id)["user_id"] # tools[tool_id].owner_id
    /\ add_reservation(session_id, tool_id, iv[1], iv[2])

scenario_reserve_again(iv) ==
    /\ route = AddRoute
    /\ response = ReservationCreated
    /\ \E r \in reservations :
          /\ r.start_date < iv[2]
          /\ iv[1] < r.end_date
          /\ add_reservation(CookieOf(r.borrower_id), r.tool_id, iv[1], iv[2])

scenario_approve ==
    /\ route = AddRoute
    /\ response = TriggerAlreadyReserved
    /\ \E r \in reservations :
          update_reservation_status(CookieOf(tools[r.tool_id].owner_id),
                                    r.reservation_id, "approved")

scenario_complete ==
    /\ route = UpdateRoute
    /\ response = StatusUpdated("approved")
    /\ \E r \in reservations :
          update_reservation_status(CookieOf(tools[r.tool_id].owner_id),
                                    r.reservation_id, "completed")

scenario_rate ==
    /\ route = UpdateRoute
    /\ response = StatusUpdated("completed")
    /\ \E r \in reservations :
          add_rating(CookieOf(r.borrower_id), r.reservation_id,
                     tools[r.tool_id].owner_id, 5)

ScenarioReserve ==
    \E c \in SessionCookies, t \in DOMAIN tools, iv \in ScenarioIntervals :
        scenario_reserve(c, t, iv)

ScenarioReserveAgain ==
    \E iv \in ScenarioIntervals : scenario_reserve_again(iv)

NextScenario ==
    \/ ScenarioReserve
    \/ ScenarioReserveAgain
    \/ scenario_approve
    \/ scenario_complete
    \/ scenario_rate

SpecScenario == Init /\ [][NextScenario]_vars

----------------------------------------------------------------------------
(* SpecScripts: the maintenance scripts migrate_db.py and fix_overlap.py,  *)
(* run in any order on the database the server works on.  Each script      *)
(* replaces database functions in one transaction, which is rolled back    *)
(* when a statement fails.                                                 *)

MigrateScript == "migrate_db.py"

FixOverlapScript == "fix_overlap.py"

MigrationCompleted == <<"Migration completed successfully!", "">>

MigrationFailed == <<"Migration failed", "">>

LogicUpdated == <<"Logic updated successfully!", "">>

LogicUpdateFailed == <<"Logic update failed", "">>

\* check_tool_availability as run_migration creates it
check_tool_availability_migrate(p_tool_id, p_start_date, p_end_date) ==
    LET v_conflict_count ==
            Cardinality({r \in reservations :
                /\ r.tool_id = p_tool_id
                /\ r.status \in {"pending", "approved"}
                /\ r.start_date <= p_end_date
                /\ r.end_date >= p_start_date})
    IN  v_conflict_count = 0

\* check_tool_availability as fix_overlap_logic creates it
check_tool_availability_fix(p_tool_id, p_start_date, p_end_date) ==
    LET v_conflict_count ==
            Cardinality({r \in reservations :
                /\ r.tool_id = p_tool_id
                /\ r.status \in {"pending", "approved"}
                /\ r.start_date < p_end_date
                /\ r.end_date > p_start_date})
    IN  v_conflict_count = 0

\* the check_tool_availability that is in the database
check_tool_availability(p_tool_id, p_start_date, p_end_date) ==
    IF functions.check_tool_availability = "strict"
    THEN check_tool_availability_fix(p_tool_id, p_start_date, p_end_date)
    ELSE check_tool_availability_migrate(p_tool_id, p_start_date, p_end_date)

run_migration(ok) ==
    /\ route' = MigrateScript
    /\ IF ok
       THEN /\ functions' = [functions EXCEPT !.check_tool_availability = "non-strict"]
            /\ response' = MigrationCompleted
       ELSE /\ UNCHANGED functions
            /\ response' = MigrationFailed
    /\ UNCHANGED <<users, tools, reservations, ratings, user_sessions, now,
                   next_reservation_id, txn>>

fix_overlap_logic(ok) ==
    /\ route' = FixOverlapScript
    /\ IF ok
       THEN /\ functions' = [check_tool_availability |-> "strict",
                             fn_prevent_double_booking |-> "strict"]
            /\ response' = LogicUpdated
       ELSE /\ UNCHANGED functions
            /\ response' = LogicUpdateFailed
    /\ UNCHANGED <<users, tools, reservations, ratings, user_sessions, now,
                   next_reservation_id, txn>>

RunMigration == \E ok \in BOOLEAN : run_migration(ok)

FixOverlapLogic == \E ok \in BOOLEAN : fix_overlap_logic(ok)

NextScripts ==
    \/ RunMigration
    \/ FixOverlapLogic
    \/ AddReservation
    \/ UpdateReservationStatus

SpecScripts == Init /\ [][NextScripts]_vars

----------------------------------------------------------------------------
(* SpecTools: the owner's tool form beside the reservation requests *)

ToolUpdateRoute == "/tools/update/{tool_id}"

ToolUpdated == <<"/dashboard?message=tool_updated", "">>

\* status values of the tool form
ToolStatusInputs == {"available", "reserved", "unavailable"}

\* the rows the UPDATE of update_tool matches
ToolUpdateMatches(user, tool_id) ==
    {t \in DOMAIN tools :
        /\ t = tool_id
        /\ (tools[t].owner_id = user["user_id"] \/ is_admin(user))}

update_tool(session_id, tool_id, name, status) ==
    /\ route' = ToolUpdateRoute
    /\ LET user == get_current_user(session_id)
       IN  IF user = None
           THEN /\ response' = LoginRequired
                /\ UNCHANGED tools
           ELSE /\ tools' = [t \in DOMAIN tools |->
                                IF t \in ToolUpdateMatches(user, tool_id)
                                THEN [tools[t] EXCEPT !.name = name, !.status = status]
                                ELSE tools[t]]
                /\ response' = ToolUpdated
    /\ UNCHANGED <<users, reservations, ratings, user_sessions, now,
                   next_reservation_id, txn, functions>>

\* the form is posted with the name the tool has and one of the statuses
UpdateTool ==
    \E c \in SessionCookies, t \in DOMAIN tools, s \in ToolStatusInputs :
        update_tool(c, t, tools[t].name, s)

AnonymousUpdateTool ==
    \E c \in AnonymousCookies : update_tool(c, 1, "drill", "available")

NextTools ==
    \/ UpdateTool
    \/ AnonymousUpdateTool
    \/ AddReservation
    \/ AnonymousAdd

SpecTools == Init /\ [][NextTools]_vars

----------------------------------------------------------------------------
(* SpecStatus: reservation requests and status updates, the status field   *)
(* of the form posted with any string                                      *)

\* a status string that is none of the four
OtherStatusInputs == {"returned"}

UpdateWithOtherStatus ==
    \E c \in SessionCookies, id \in ReservationIdInputs, s \in OtherStatusInputs :
        update_reservation_status(c, id, s)

NextStatus ==
    \/ AddReservation
    \/ UpdateReservationStatus
    \/ UpdateWithOtherStatus

SpecStatus == Init /\ [][NextStatus]_vars

----------------------------------------------------------------------------
(* SpecAuth: login, registration, logout and the admin's deletion of users *)
(* on a server that starts with an empty session map and a database that   *)
(* holds the three users and no tool                                       *)

LoginRoute == "/login"

RegisterRoute == "/register"

LogoutRoute == "/logout"

AdminDeleteRoute == "/admin/users/delete/{user_id}"

\* the redirect to the dashboard that sets the session_id cookie
LoginSucceeded(session_id) == <<"/dashboard", session_id>>

InvalidLogin == <<"/?error=invalid_username_or_password", "">>

Registered == <<"/?message=registered", "">>

AlreadyRegistered == <<"/?error=username_or_email_exists", "">>

LoggedOut == <<"/", "">>

AdminRequired == <<"/dashboard?error=admin_required", "">>

CannotDeleteSelf == <<"/dashboard?error=cannot_delete_self", "">>

UserDeleted == <<"/dashboard?message=user_deleted", "">>

\* the rows of SELECT ... FROM users WHERE username = :username
UsersNamed(username) == {u \in DOMAIN users : users[u].username = username}

\* session_id is a uuid4 value: one of the ids that is not in the map
login(username, password) ==
    /\ route' = LoginRoute
    /\ LET result == UsersNamed(username)
       IN  IF result # {}
           THEN \E session_id \in SessionCookies \ DOMAIN user_sessions :
                   LET u == CHOOSE x \in result : TRUE
                   IN  /\ user_sessions' = user_sessions @@
                              (session_id :> [user_id |-> u,
                                              username |-> users[u].username,
                                              role |-> users[u].role,
                                              trust_score |-> users[u].trust_score])
                       /\ response' = LoginSucceeded(session_id)
           ELSE /\ response' = InvalidLogin
                /\ UNCHANGED user_sessions
    /\ UNCHANGED <<users, tools, reservations, ratings, now, next_reservation_id,
                   txn, functions>>

\* the value the user_id sequence gives the next row: the users of InitUsers
\* took 1 to 3, and the rows registered since are all in the table (the
\* requests of SpecAuth delete none of them)
next_user_id == 4 + Cardinality({u \in DOMAIN users : u >= 4})

\* emails are left out: each username registers with an email of its own
register(username, password) ==
    /\ route' = RegisterRoute
    /\ IF UsersNamed(username) = {}
       THEN /\ users' = users @@
                   (next_user_id :> [username |-> username,
                                     password_hash |-> password,
                                     role |-> "user",
                                     trust_score |-> <<0, 1>>])
            /\ response' = Registered
       ELSE /\ response' = AlreadyRegistered
            /\ UNCHANGED users
    /\ UNCHANGED <<tools, reservations, ratings, user_sessions, now,
                   next_reservation_id, txn, functions>>

logout(session_id) ==
    /\ route' = LogoutRoute
    /\ user_sessions' =
           [s \in DOMAIN user_sessions \ {session_id} |-> user_sessions[s]]
    /\ response' = LoggedOut
    /\ UNCHANGED <<users, tools, reservations, ratings, now, next_reservation_id,
                   txn, functions>>

\* a users row that a row of another table refers to
Referenced(user_id) ==
    \/ \E t \in DOMAIN tools : tools[t].owner_id = user_id
    \/ \E r \in reservations : r.borrower_id = user_id
    \/ \E rt \in BagToSet(ratings) : rt.rater_id = user_id \/ rt.rated_user_id = user_id

\* what the DELETE does to the rows that refer to the user is decided by the
\* foreign keys of the schema: the request is modelled for users that no row
\* refers to
admin_delete_user(session_id, user_id) ==
    /\ route' = AdminDeleteRoute
    /\ ~Referenced(user_id)
    /\ LET user == get_current_user(session_id)
       IN  IF user = None \/ user["role"] # "admin"
           THEN /\ response' = AdminRequired
                /\ UNCHANGED users
           ELSE IF user_id = user["user_id"]
           THEN /\ response' = CannotDeleteSelf
                /\ UNCHANGED users
           ELSE /\ users' = [u \in DOMAIN users \ {user_id} |-> users[u]]
                /\ response' = UserDeleted
    /\ UNCHANGED <<tools, reservations, ratings, user_sessions, now,
                   next_reservation_id, txn, functions>>

\* (username, password) forms posted to /login: users 1 and 3 with their
\* passwords, user 1 with another password, the user that registers, and a
\* name of no user
LoginInputs ==
    {<<"u1", "pw1">>, <<"u1", "bad">>, <<"admin", "pw3">>, <<"u4", "pw4">>,
     <<"nobody", "pw1">>}

\* (username, password) forms posted to /register: a new name and a taken one
RegisterInputs == {<<"u4", "pw4">>, <<"u2", "pw4">>}

\* user ids the admin form names: users 1 and 2, the admin, and no user's
DeleteUserInputs == {1, 2, 3, 9}

InitAuth ==
    /\ users = InitUsers
    /\ tools = <<>>
    /\ reservations = {}
    /\ ratings = EmptyBag
    /\ user_sessions = <<>>
    /\ route = ""
    /\ response = <<"", "">>
    /\ now = 0
    /\ next_reservation_id = 1
    /\ txn = [p \in Procs |-> IdleTxn]
    /\ functions = InstalledByFixOverlap

Login ==
    \E f \in LoginInputs : login(f[1], f[2])

Register ==
    \E f \in RegisterInputs : register(f[1], f[2])

Logout ==
    \E c \in Cookies : logout(c)

AdminDeleteUser ==
    \E c \in Cookies, u \in DeleteUserInputs : admin_delete_user(c, u)

NextAuth ==
    \/ Login
    \/ Register
    \/ Logout
    \/ AdminDeleteUser
    \/ Dashboard

SpecAuth == InitAuth /\ [][NextAuth]_vars

----------------------------------------------------------------------------
(* SpecDb: the helpers of src/database.py, a call of execute_raw_sql in     *)
(* each server process, line by line.  txn[p] is the connection of the     *)
(* call: where the call is, its statement, whether the transaction the     *)
(* statement began was committed, and how the call ended.                  *)

\* execute_function: SELECT * FROM name(args), a statement that returns rows
execute_function(function_name, writes) ==
    [query |-> "SELECT * FROM " \o function_name, returns_rows |-> TRUE,
     writes |-> writes, fails |-> FALSE]

\* call_procedure: CALL name(args), a statement that returns no rows
call_procedure(procedure_name, writes, fails) ==
    [query |-> "CALL " \o procedure_name, returns_rows |-> FALSE,
     writes |-> writes, fails |-> fails]

\* what a statement writes: a status for a tool, or nothing
NoWrite == <<>>

\* the statements handed to execute_raw_sql: the availability function, which
\* only reads; an UPDATE with and without RETURNING; a procedure that updates
\* a tool; a procedure the database does not have
SqlInputs ==
    {execute_function("check_tool_availability", NoWrite),
     [query |-> "UPDATE tools RETURNING", returns_rows |-> TRUE,
      writes |-> <<1, "unavailable">>, fails |-> FALSE],
     [query |-> "UPDATE tools", returns_rows |-> FALSE,
      writes |-> <<1, "reserved">>, fails |-> FALSE],
     call_procedure("sp_mark_available", <<1, "available">>, FALSE),
     call_procedure("no_such_procedure", NoWrite, TRUE)}

\* conn.execute(text(query), params): the connection begins a transaction and
\* runs the statement in it, or the statement raises SQLAlchemyError
conn_execute(p, stmt) ==
    /\ txn[p].state \in {"idle", "closed"}
    /\ txn' = [txn EXCEPT ![p] =
                  [state |-> IF stmt.fails THEN "except" ELSE "executed",
                   row |-> stmt, committed |-> FALSE, result |-> ""]]
    /\ UNCHANGED tools

\* if result.returns_rows: return [dict(zip(columns, row)) ...]
return_rows(p) ==
    /\ txn[p].state = "executed"
    /\ txn[p].row.returns_rows
    /\ txn' = [txn EXCEPT ![p].state = "closing", ![p].result = "rows"]
    /\ UNCHANGED tools

\* conn.commit(); return []
conn_commit(p) ==
    /\ txn[p].state = "executed"
    /\ ~txn[p].row.returns_rows
    /\ tools' = IF txn[p].row.writes = NoWrite THEN tools
                ELSE [tools EXCEPT ![txn[p].row.writes[1]].status = txn[p].row.writes[2]]
    /\ txn' = [txn EXCEPT ![p].state = "closing", ![p].committed = TRUE,
                          ![p].result = "empty"]

\* except SQLAlchemyError as e: conn.rollback(); raise e
conn_rollback(p) ==
    /\ txn[p].state = "except"
    /\ txn' = [txn EXCEPT ![p].state = "closing", ![p].result = "raised"]
    /\ UNCHANGED tools

\* the finally of get_db_connection: connection.close() rolls back what the
\* transaction of the connection has not committed
connection_close(p) ==
    /\ txn[p].state = "closing"
    /\ txn' = [txn EXCEPT ![p].state = "closed"]
    /\ UNCHANGED tools

ConnExecute ==
    /\ \E p \in Procs, stmt \in SqlInputs : conn_execute(p, stmt)
    /\ UNCHANGED <<users, reservations, ratings, user_sessions, route, response,
                   now, next_reservation_id, functions>>

ReturnRows ==
    /\ \E p \in Procs : return_rows(p)
    /\ UNCHANGED <<users, reservations, ratings, user_sessions, route, response,
                   now, next_reservation_id, functions>>

ConnCommit ==
    /\ \E p \in Procs : conn_commit(p)
    /\ UNCHANGED <<users, reservations, ratings, user_sessions, route, response,
                   now, next_reservation_id, functions>>

ConnRollback ==
    /\ \E p \in Procs : conn_rollback(p)
    /\ UNCHANGED <<users, reservations, ratings, user_sessions, route, response,
                   now, next_reservation_id, functions>>

ConnectionClose ==
    /\ \E p \in Procs : connection_close(p)
    /\ UNCHANGED <<users, reservations, ratings, user_sessions, route, response,
                   now, next_reservation_id, functions>>

NextDb ==
    \/ ConnExecute
    \/ ReturnRows
    \/ ConnCommit
    \/ ConnRollback
    \/ ConnectionClose

SpecDb == Init /\ [][NextDb]_vars

----------------------------------------------------------------------------
(* Vocabulary of the properties *)

Active(r) == r.status \in {"pending", "approved"}

\* half-open intervals [start, end) of two rows share an instant
Overlap(s1, e1, s2, e2) == s1 < e2 /\ s2 < e1

RowsOverlap(r1, r2) == Overlap(r1.start_date, r1.end_date, r2.start_date, r2.end_date)

OwnerOf(tool_id) == tools[tool_id].owner_id

RowWithId(id) == {r \in reservations : r.reservation_id = id}

----------------------------------------------------------------------------
(* C1: in every reachable state of the ledger (requests handled one at a   *)
(* time: create, update status, delete), two distinct reservations of one  *)
(* tool that are both pending or approved do not overlap as half-open      *)
(* intervals.                                                              *)
C1_NoActiveOverlap ==
    \A r1 \in reservations : \A r2 \in reservations :
        ( /\ r1.reservation_id # r2.reservation_id
          /\ r1.tool_id = r2.tool_id
          /\ Active(r1)
          /\ Active(r2) )
        => ~RowsOverlap(r1, r2)

\* an update that would make a cancelled or completed reservation active again
\* over an active one has been refused
C1_Witness ==
    /\ route = UpdateRoute
    /\ response = UpdateFailed(AlreadyReservedMsg)
    /\ \E r1 \in reservations : \E r2 \in reservations :
          /\ r1.tool_id = r2.tool_id
          /\ ~Active(r1)
          /\ Active(r2)
          /\ RowsOverlap(r1, r2)

----------------------------------------------------------------------------
(* C2: of two /reservations/add requests for one tool with overlapping     *)
(* intervals that run concurrently, at most one commits a reservation.     *)
C2_AtMostOneCommits ==
    \A p \in Procs : \A q \in Procs :
        ( /\ p # q
          /\ txn[p].state = "committed"
          /\ txn[q].state = "committed"
          /\ txn[p].row.tool_id = txn[q].row.tool_id )
        => ~RowsOverlap(txn[p].row, txn[q].row)

----------------------------------------------------------------------------
(* C3: a /reservations/add request by the owner of the requested tool is   *)
(* answered with the own-tool error and inserts nothing; so no reservation *)
(* ever has the owner of its tool as borrower.                             *)
NoSelfBooking ==
    \A r \in reservations : r.borrower_id # OwnerOf(r.tool_id)

SelfBookingRejected ==
    route' = AddRoute =>
    \A c \in SessionCookies : \A f \in ReservationInputs :
        ( /\ get_current_user(c)["user_id"] = OwnerOf(f[1])
          /\ add_reservation(c, f[1], f[2], f[3]) )
        => /\ response' = TriggerOwnTool
           /\ reservations' = reservations

C3_SelfBooking ==
    /\ NoSelfBooking
    /\ [][SelfBookingRejected /\ NoSelfBooking']_vars

\* the owner of tool 1 has asked for it while it has reservations
C3_Witness ==
    /\ route = AddRoute
    /\ response = TriggerOwnTool
    /\ \E r \in reservations : r.tool_id = 1

----------------------------------------------------------------------------
(* C4: touching endpoints do not conflict.  On one tool, with [1,5) the    *)
(* only active interval a request for [5,10) by a non-owner inserts its    *)
(* row, and the other way round; a request for [4,6) is refused while      *)
(* [1,5) or [5,10) is active on the tool.                                  *)
ActiveIntervals(tool_id) ==
    {<<r.start_date, r.end_date>> :
        r \in {x \in reservations : x.tool_id = tool_id /\ Active(x)}}

Inserted(tool_id, borrower_id, start_date, end_date) ==
    /\ reservations \subseteq reservations'
    /\ \E r \in reservations' \ reservations :
          /\ reservations' \ reservations = {r}
          /\ r.tool_id = tool_id
          /\ r.borrower_id = borrower_id
          /\ r.start_date = start_date
          /\ r.end_date = end_date
          /\ r.status = "pending"

TouchingAccepted(c, t, iv, other) ==
    ( /\ get_current_user(c)["user_id"] # OwnerOf(t)
      /\ ActiveIntervals(t) = {other}
      /\ add_reservation(c, t, iv[1], iv[2]) )
    => /\ Inserted(t, get_current_user(c)["user_id"], iv[1], iv[2])
       /\ response' = ReservationCreated

OverlappingRefused(c, t) ==
    ( /\ ActiveIntervals(t) \cap {<<1, 5>>, <<5, 10>>} # {}
      /\ add_reservation(c, t, 4, 6) )
    => /\ reservations' = reservations
       /\ response' \in {TriggerAlreadyReserved, TriggerOwnTool}

C4_TouchingEndpoints ==
    [][route' = AddRoute =>
       \A c \in SessionCookies : \A t \in DOMAIN tools :
          /\ TouchingAccepted(c, t, <<5, 10>>, <<1, 5>>)
          /\ TouchingAccepted(c, t, <<1, 5>>, <<5, 10>>)
          /\ OverlappingRefused(c, t)]_vars

\* [5,10) was booked first, [1,5) after it, both are active, and a request
\* has been refused as already reserved
C4_Witness ==
    /\ route = AddRoute
    /\ response = TriggerAlreadyReserved
    /\ \E a \in reservations : \E b \in reservations :
          /\ a.tool_id = b.tool_id
          /\ Active(a) /\ Active(b)
          /\ <<a.start_date, a.end_date>> = <<1, 5>>
          /\ <<b.start_date, b.end_date>> = <<5, 10>>
          /\ b.reservation_id < a.reservation_id
    /\ \A r \in reservations : <<r.start_date, r.end_date>> # <<4, 6>>

----------------------------------------------------------------------------
(* C5 as stated: a /reservations/add request whose interval overlaps an    *)
(* active reservation of the tool is answered with the already-reserved    *)
(* error and leaves the reservations table as it was.                      *)
OverlapsActive(tool_id, start_date, end_date) ==
    \E r \in reservations :
        /\ r.tool_id = tool_id
        /\ Active(r)
        /\ Overlap(r.start_date, r.end_date, start_date, end_date)

C5_ConflictAlwaysReported ==
    [][route' = AddRoute =>
       \A c \in SessionCookies : \A f \in ReservationInputs :
          ( /\ OverlapsActive(f[1], f[2], f[3])
            /\ add_reservation(c, f[1], f[2], f[3]) )
          => /\ response' = TriggerAlreadyReserved
             /\ reservations' = reservations]_vars

(* C5 as amended: such a request leaves the reservations table as it was;  *)
(* it is answered with the already-reserved error when the caller is not   *)
(* the tool's owner and with the own-tool error when the caller is.  As    *)
(* the table is as it was, the conflicting reservation is still active and *)
(* the same request is refused again however often it is repeated.         *)
C5_ConflictRejected ==
    [][route' = AddRoute =>
       \A f \in ReservationInputs :
          OverlapsActive(f[1], f[2], f[3]) =>
              \A c \in SessionCookies :
                  add_reservation(c, f[1], f[2], f[3])
                  => /\ reservations' = reservations
                     /\ response' =
                          IF get_current_user(c)["user_id"] = OwnerOf(f[1])
                          THEN TriggerOwnTool
                          ELSE TriggerAlreadyReserved]_vars

\* a request has been refused as already reserved because of an approved
\* reservation
C5_Witness ==
    /\ route = AddRoute
    /\ response = TriggerAlreadyReserved
    /\ \E r \in reservations : r.status = "approved"
    /\ \A r \in reservations : r.status # "pending"

----------------------------------------------------------------------------
(* C6: a /reservations/add request answered as created added exactly one   *)
(* row, for the requested tool, with the caller as borrower, the requested *)
(* dates and status pending, and changed no other reservation and no tool, *)
(* user or rating row.                                                     *)
C6_InsertFrame ==
    [][(route' = AddRoute /\ response' = ReservationCreated) =>
          \A c \in SessionCookies : \A f \in ReservationInputs :
              add_reservation(c, f[1], f[2], f[3])
              => /\ Inserted(f[1], get_current_user(c)["user_id"], f[2], f[3])
                 /\ Cardinality(reservations') = Cardinality(reservations) + 1
                 /\ users' = users
                 /\ tools' = tools
                 /\ ratings' = ratings]_vars

\* a reservation has been created beside an older one
C6_Witness ==
    /\ route = AddRoute
    /\ response = ReservationCreated
    /\ Cardinality(reservations) >= 2

----------------------------------------------------------------------------
(* C7: a /reservations/update request by a user who is neither the owner   *)
(* of the reservation's tool nor an admin changes no reservation row.      *)
MayUpdate(user, r) ==
    \/ user["user_id"] = OwnerOf(r.tool_id)
    \/ user["role"] = "admin"

UnauthorizedUpdate(c, id, s) ==
    /\ \E r \in RowWithId(id) : ~MayUpdate(get_current_user(c), r)
    /\ update_reservation_status(c, id, s)

C7_UnauthorizedUpdateNoChange ==
    [][reservations' # reservations =>
          \A c \in SessionCookies : \A id \in ReservationIdInputs :
              \A s \in StatusInputs : ~UnauthorizedUpdate(c, id, s)]_vars

\* the table holds one reservation, pending and never updated, and a request
\* to complete it has been answered
C7_Witness ==
    /\ route = UpdateRoute
    /\ response = StatusUpdated("completed")
    /\ Cardinality(reservations) = 1
    /\ \A r \in reservations :
          /\ r.status = "pending"
          /\ r.reservation_id = 1
          /\ r.last_updated = 0

----------------------------------------------------------------------------
(* C8: a /reservations/update request by a user who is neither the tool's  *)
(* owner nor an admin is answered with a result that differs from the      *)
(* answer to a successful update.                                          *)
C8_UnauthorizedDistinguishable ==
    [][route' = UpdateRoute =>
       \A c \in SessionCookies : \A id \in ReservationIdInputs :
          \A s \in StatusInputs :
              UnauthorizedUpdate(c, id, s) => response' # StatusUpdated(s)]_vars

----------------------------------------------------------------------------
(* C9: the status of a reservation only changes along pending -> approved, *)
(* approved -> completed, pending -> cancelled, approved -> cancelled.     *)
AllowedTransitions ==
    {<<"pending", "approved">>, <<"approved", "completed">>,
     <<"pending", "cancelled">>, <<"approved", "cancelled">>}

C9_AllowedTransitionsOnly ==
    [][\A r \in reservations : \A q \in reservations' :
          (r.reservation_id = q.reservation_id /\ r.status # q.status)
          => <<r.status, q.status>> \in AllowedTransitions]_vars

----------------------------------------------------------------------------
(* C10: a /reservations/delete request for an existing reservation removes *)
(* that row, and only it, when the caller is its borrower or an admin, and *)
(* leaves the reservations table as it was for every other caller, the     *)
(* tool's owner included.                                                  *)
C10_DeleteByBorrowerOrAdmin ==
    [][route' = DeleteRoute =>
          \A c \in SessionCookies : \A id \in ReservationIdInputs :
              \A r \in RowWithId(id) :
                  delete_reservation(c, id)
                  => reservations' =
                        IF \/ get_current_user(c)["user_id"] = r.borrower_id
                           \/ get_current_user(c)["role"] = "admin"
                        THEN reservations \ {r}
                        ELSE reservations]_vars

\* a reservation has been deleted and another is still there
C10_Witness ==
    /\ route = DeleteRoute
    /\ response = ReservationCancelled
    /\ reservations # {}
    /\ Cardinality(reservations) < next_reservation_id - 1

----------------------------------------------------------------------------
(* C11: a /ratings/add request with a score outside 1..5 is answered with  *)
(* the score check-constraint error, adds no row to ratings and changes no *)
(* user's trust score.                                                     *)
C11_InvalidScoreRejected ==
    [][route' = RatingRoute =>
       \A f \in RatingInputs :
          (f[3] < 1 \/ f[3] > 5) =>
              \A c \in RatingCookies :
                  add_rating(c, f[1], f[2], f[3])
                  => /\ response' = RatingCheckConstraint
                     /\ ratings' = ratings
                     /\ \A u \in DOMAIN users :
                           users'[u].trust_score = users[u].trust_score]_vars

\* a score outside the range has been refused while the table has ratings
C11_Witness ==
    /\ route = RatingRoute
    /\ response = RatingCheckConstraint
    /\ ratings # EmptyBag

----------------------------------------------------------------------------
(* C12: with requests handled one at a time, after a /ratings/add request  *)
(* answered as submitted the rated user's trust score is the sum of the    *)
(* scores the user had received before plus the new score, divided by      *)
(* their number; a user whose scores are 5, 4, 3 has trust score 4, and    *)
(* 7/2 once a 2 is added.                                                  *)
ScoreCount(user_id, score) ==
    CountScore(ratings, {r \in RatingsOf(ratings, user_id) : r.score = score})

HasScores(user_id, scores) ==
    \A s \in 1..5 : ScoreCount(user_id, s) = IF s \in scores THEN 1 ELSE 0

MeanExamples ==
    \A u \in DOMAIN users :
        /\ HasScores(u, {5, 4, 3}) => users[u].trust_score = <<4, 1>>
        /\ HasScores(u, {5, 4, 3, 2}) => users[u].trust_score = <<7, 2>>

MeanAfterRating ==
    (route' = RatingRoute /\ response' = RatingSubmitted) =>
        \A c \in RatingCookies : \A f \in RatingInputs :
            add_rating(c, f[1], f[2], f[3])
            => users'[f[2]].trust_score =
                  Fraction(SumScore(ratings, RatingsOf(ratings, f[2])) + f[3],
                           CountScore(ratings, RatingsOf(ratings, f[2])) + 1)

----------------------------------------------------------------------------
(* C13: in every committed state each user's trust score is the mean of    *)
(* the scores of the ratings rows that rate the user, 0 when there is      *)
(* none.                                                                   *)
C13_TrustScoreConsistent ==
    \A u \in DOMAIN users :
        users[u].trust_score = fn_update_user_trust_score(ratings, u)

----------------------------------------------------------------------------
(* C14: when two /ratings/add requests for one rated user have run         *)
(* concurrently and both have committed, the user's trust score is the     *)
(* mean of all the user's ratings rows, the two new ones included.         *)
C14_NoLostUpdate ==
    \A p \in Procs : \A q \in Procs :
        ( /\ p # q
          /\ txn[p].state = "committed"
          /\ txn[q].state = "committed"
          /\ txn[p].row.rated_user_id = txn[q].row.rated_user_id )
        => LET u == txn[p].row.rated_user_id
           IN  users[u].trust_score =
                  Fraction(SumScore(ratings, RatingsOf(ratings, u)),
                           CountScore(ratings, RatingsOf(ratings, u)))

----------------------------------------------------------------------------
(* C15: the ratings table never holds two rows with the same reservation   *)
(* and the same rater.                                                     *)
C15_OneRatingPerPair ==
    \A r \in BagToSet(ratings) :
        CountScore(ratings, {x \in BagToSet(ratings) :
                                /\ x.reservation_id = r.reservation_id
                                /\ x.rater_id = r.rater_id}) = 1

----------------------------------------------------------------------------
(* C16: a /ratings/add request adds a row, or changes a trust score, only  *)
(* when the reservation it names is completed and the caller is that       *)
(* reservation's borrower or the owner of its tool.                        *)
MayRate(user, reservation_id) ==
    \E r \in reservations :
        /\ r.reservation_id = reservation_id
        /\ r.status = "completed"
        /\ (user["user_id"] = r.borrower_id \/ user["user_id"] = OwnerOf(r.tool_id))

C16_RatingGated ==
    [][route' = RatingRoute =>
       \A c \in RatingCookies : \A f \in RatingInputs :
          ( /\ ~MayRate(get_current_user(c), f[1])
            /\ add_rating(c, f[1], f[2], f[3]) )
          => /\ ratings' = ratings
             /\ users' = users]_vars

----------------------------------------------------------------------------
(* C17: in the end-to-end scenario the first reservation is created, the   *)
(* second, overlapping request of the same borrower is refused as already  *)
(* reserved and inserts nothing, the owner's two status updates and the    *)
(* borrower's rating are accepted, and at the end the tool has exactly one *)
(* reservation, which is completed, and the owner's trust score is 5.      *)
ScenarioSteps ==
    /\ route = "" => response' = ReservationCreated
    /\ (route = AddRoute /\ response = ReservationCreated)
          => /\ response' = TriggerAlreadyReserved
             /\ reservations' = reservations
    /\ route' = UpdateRoute
          => \E r \in reservations' : response' = StatusUpdated(r.status)
    /\ route' = RatingRoute => response' = RatingSubmitted

ScenarioEnd ==
    route = RatingRoute =>
        \E r \in reservations :
            /\ reservations = {r}
            /\ r.status = "completed"
            /\ BagCardinality(ratings) = 1
            /\ users[OwnerOf(r.tool_id)].trust_score = <<5, 1>>

C17_EndToEnd ==
    /\ ScenarioEnd
    /\ [][ScenarioSteps /\ ScenarioEnd']_vars

\* user 2 has reserved tool 1 of user 1 for [1,5), it is completed and rated
C17_Witness ==
    /\ route = RatingRoute
    /\ response = RatingSubmitted
    /\ users[1].trust_score = <<5, 1>>
    /\ \E r \in reservations :
          /\ reservations = {r}
          /\ r.tool_id = 1
          /\ r.borrower_id = 2
          /\ <<r.start_date, r.end_date>> = <<1, 5>>
          /\ r.status = "completed"

----------------------------------------------------------------------------
(* C18: a /reservations/add request with start >= end inserts nothing and  *)
(* is not answered as created, so every reservation in the table has       *)
(* start < end.                                                            *)
StoredIntervalsValid ==
    \A r \in reservations : r.start_date < r.end_date

InvalidIntervalRefused ==
    route' = AddRoute =>
        \A c \in SessionCookies : \A f \in ReservationInputs :
            (f[2] >= f[3] /\ add_reservation(c, f[1], f[2], f[3]))
            => /\ reservations' = reservations
               /\ response' # ReservationCreated

C18_InvalidInterval ==
    /\ StoredIntervalsValid
    /\ [][InvalidIntervalRefused /\ StoredIntervalsValid']_vars

----------------------------------------------------------------------------
(* C19: whatever scripts have run, for every tool and every candidate      *)
(* interval the check_tool_availability in the database answers false      *)
(* exactly when fn_prevent_double_booking raises the already-reserved      *)
(* exception for a reservation of that interval by a user who does not own *)
(* the tool.                                                               *)
CandidateIntervals == {<<1, 5>>, <<5, 10>>, <<4, 6>>}

CandidateRow(tool_id, iv) ==
    NewReservation(tool_id,
                   CHOOSE u \in DOMAIN users : u # OwnerOf(tool_id),
                   iv[1], iv[2])

C19_SameBoundaryPolicy ==
    \A t \in DOMAIN tools : \A iv \in CandidateIntervals :
        (~check_tool_availability(t, iv[1], iv[2]))
        <=> (fn_prevent_double_booking(CandidateRow(t, iv), reservations)
                = AlreadyReservedMsg)

----------------------------------------------------------------------------
(* C20: a /dashboard or /tools/search request leaves the users, tools,     *)
(* reservations and ratings tables and the session map as they were.       *)
C20_ReadQueriesFrame ==
    [][route' \in {DashboardRoute, SearchRoute} =>
          /\ \A c \in Cookies :
                dashboard(c) =>
                    /\ users' = users
                    /\ tools' = tools
                    /\ reservations' = reservations
                    /\ ratings' = ratings
                    /\ user_sessions' = user_sessions
          /\ \A c \in Cookies : \A q \in SearchInputs :
                search_tools(c, q) =>
                    /\ users' = users
                    /\ tools' = tools
                    /\ reservations' = reservations
                    /\ ratings' = ratings
                    /\ user_sessions' = user_sessions]_vars

\* user 1, whose trust score is no longer the one of the session, has been
\* shown the dashboard, with a top-rated user on it
C20_Witness ==
    /\ route = DashboardRoute
    /\ response = DashboardPage(user_sessions["s1"])
    /\ response[2].top_rated_users # {}
    /\ users[1].trust_score # user_sessions["s1"].trust_score

----------------------------------------------------------------------------
(* C21: only active reservations of the same tool block a booking.  A      *)
(* /reservations/add request by a user who is not the tool's owner, with   *)
(* start_date < end_date, is answered as created and inserts its row when  *)
(* no pending or approved reservation of that tool overlaps the interval:  *)
(* completed and cancelled ones, deleted ones and the reservations of      *)
(* other tools do not count.                                               *)
C21_InactiveDoNotBlock ==
    [][route' = AddRoute =>
       \A c \in SessionCookies : \A f \in ReservationInputs :
          ( /\ get_current_user(c)["user_id"] # OwnerOf(f[1])
            /\ f[2] < f[3]
            /\ ~OverlapsActive(f[1], f[2], f[3])
            /\ add_reservation(c, f[1], f[2], f[3]) )
          => /\ response' = ReservationCreated
             /\ Inserted(f[1], get_current_user(c)["user_id"], f[2], f[3])]_vars

\* a reservation has been created over a completed or cancelled one of the
\* same tool that overlaps it
C21_Witness ==
    /\ route = AddRoute
    /\ response = ReservationCreated
    /\ \E r1 \in reservations : \E r2 \in reservations :
          /\ r1.tool_id = r2.tool_id
          /\ r1.status \in {"completed", "cancelled"}
          /\ r2.status = "pending"
          /\ r2.reservation_id = next_reservation_id - 1
          /\ RowsOverlap(r1, r2)

----------------------------------------------------------------------------
(* C22: the status of a tool is advisory.  Whatever status the tool form   *)
(* has given the tool, a /reservations/add request is answered as created  *)
(* and inserts its row exactly when the caller is not the tool's owner and *)
(* no active reservation of the tool overlaps the interval, which is when  *)
(* it is accepted for a tool marked available; and a /tools/update request *)
(* changes no reservation row, also when it changes the tool's status.     *)
AcceptedByLedger(c, f) ==
    /\ get_current_user(c)["user_id"] # OwnerOf(f[1])
    /\ ~OverlapsActive(f[1], f[2], f[3])

StatusNotConsulted ==
    route' = AddRoute =>
    \A c \in SessionCookies : \A f \in ReservationInputs :
        add_reservation(c, f[1], f[2], f[3])
        => /\ (response' = ReservationCreated) <=> AcceptedByLedger(c, f)
           /\ AcceptedByLedger(c, f)
                 => Inserted(f[1], get_current_user(c)["user_id"], f[2], f[3])
           /\ ~AcceptedByLedger(c, f) => reservations' = reservations

UpdateToolKeepsLedger ==
    route' = ToolUpdateRoute => reservations' = reservations

C22_ToolStatusAdvisory ==
    [][StatusNotConsulted /\ UpdateToolKeepsLedger]_vars

\* the newest reservation was created on a tool the form had marked
\* unavailable
C22_Witness ==
    /\ route = AddRoute
    /\ response = ReservationCreated
    /\ \E r \in reservations :
          /\ r.reservation_id = next_reservation_id - 1
          /\ tools[r.tool_id].status = "unavailable"

----------------------------------------------------------------------------
(* C23: the top-rated users of a dashboard page are exactly the users who  *)
(* have received at least one rating and whose received scores have a mean *)
(* strictly above 4; a user whose mean is exactly 4 and a user without     *)
(* ratings are not among them.                                             *)
ReceivedCount(user_id) ==
    ScoreCount(user_id, 1) + ScoreCount(user_id, 2) + ScoreCount(user_id, 3)
        + ScoreCount(user_id, 4) + ScoreCount(user_id, 5)

ReceivedTotal(user_id) ==
    ScoreCount(user_id, 1) + 2 * ScoreCount(user_id, 2) + 3 * ScoreCount(user_id, 3)
        + 4 * ScoreCount(user_id, 4) + 5 * ScoreCount(user_id, 5)

MeanAbove4(user_id) ==
    /\ ReceivedCount(user_id) >= 1
    /\ ReceivedTotal(user_id) > 4 * ReceivedCount(user_id)

C23_TopRatedAbove4 ==
    (route = DashboardRoute /\ response[1] = "dashboard.html") =>
        /\ response[2].top_rated_users = {u \in DOMAIN users : MeanAbove4(u)}
        /\ \A u \in DOMAIN users :
              ( \/ ReceivedCount(u) = 0
                \/ HasScores(u, {4})
                \/ HasScores(u, {5, 4, 3}) )
              => u \notin response[2].top_rated_users

\* the page lists user 1, rated 5 and 4, and neither user 2, whose one rating
\* is a 4, nor user 3, who has none
C23_Witness ==
    /\ route = DashboardRoute
    /\ response[1] = "dashboard.html"
    /\ HasScores(1, {5, 4})
    /\ HasScores(2, {4})
    /\ ReceivedCount(3) = 0
    /\ response[2].top_rated_users = {1}

----------------------------------------------------------------------------
(* C24: a /reservations/update request by the tool's owner or an admin     *)
(* that sets a completed or cancelled reservation to pending or approved   *)
(* while another pending or approved reservation of the tool overlaps it   *)
(* is refused and leaves the table as it was; the other reservations are   *)
(* the ones with another id, so such a request for a pending or approved  *)
(* reservation that no other active reservation overlaps is not refused.   *)
OtherActiveOverlaps(r) ==
    \E o \in reservations :
        /\ o.reservation_id # r.reservation_id
        /\ o.tool_id = r.tool_id
        /\ Active(o)
        /\ RowsOverlap(o, r)

Reactivation(r, s) ==
    /\ ~Active(r)
    /\ s \in ActiveStatuses
    /\ OtherActiveOverlaps(r)

ReactivationRefused(c, r, s) ==
    ( /\ Reactivation(r, s)
      /\ MayUpdate(get_current_user(c), r)
      /\ update_reservation_status(c, r.reservation_id, s) )
    => /\ reservations' = reservations
       /\ response' = UpdateFailed(AlreadyReservedMsg)

\* a request that is not answered as updated is not one of the owner or an
\* admin for an active reservation that no other active one overlaps
OwnIntervalIgnored ==
    response'[1] # StatusUpdated("")[1] =>
        \A r \in reservations :
            (Active(r) /\ ~OtherActiveOverlaps(r)) =>
                \A c \in SessionCookies : \A s \in StatusInputs :
                    ~( /\ MayUpdate(get_current_user(c), r)
                       /\ update_reservation_status(c, r.reservation_id, s) )

C24_ReactivationChecked ==
    [][route' = UpdateRoute =>
       /\ \A r \in reservations : \A c \in SessionCookies : \A s \in StatusInputs :
             ReactivationRefused(c, r, s)
       /\ OwnIntervalIgnored]_vars

\* the owner's request to set a completed reservation back to approved has
\* been refused because a pending one overlaps it
C24_Witness ==
    /\ route = UpdateRoute
    /\ response = UpdateFailed(AlreadyReservedMsg)
    /\ \E r1 \in reservations : \E r2 \in reservations :
          /\ r1.tool_id = r2.tool_id
          /\ r1.status = "completed"
          /\ r2.status = "pending"
          /\ r1.reservation_id < r2.reservation_id
          /\ RowsOverlap(r1, r2)

----------------------------------------------------------------------------
(* C25: in every reachable state the status of each reservation is one of  *)
(* pending, approved, completed, cancelled, and a /reservations/update     *)
(* request that posts another status string changes no row.                *)
C25_StatusDomain ==
    /\ \A r \in reservations :
          r.status \in {"pending", "approved", "completed", "cancelled"}
    /\ [][(route' = UpdateRoute /\ reservations' # reservations) =>
             \A r \in reservations' \ reservations :
                 r.status \in {"pending", "approved", "completed", "cancelled"}]_vars

----------------------------------------------------------------------------
(* C26: no user rates themselves.  In every ratings row the rater is not   *)
(* the rated user, and the rated user is the other participant of the      *)
(* rated reservation: its tool's owner when the rater is the borrower, its *)
(* borrower when the rater is the owner; so a /ratings/add request never   *)
(* changes the trust score of its caller.                                  *)
OtherParticipant(rt) ==
    \E r \in RowWithId(rt.reservation_id) :
        \/ rt.rater_id = r.borrower_id /\ rt.rated_user_id = OwnerOf(r.tool_id)
        \/ rt.rater_id = OwnerOf(r.tool_id) /\ rt.rated_user_id = r.borrower_id

C26_NoSelfRating ==
    /\ \A rt \in BagToSet(ratings) :
          /\ rt.rater_id # rt.rated_user_id
          /\ OtherParticipant(rt)
    /\ [][route' = RatingRoute =>
             \A c \in RatingCookies :
                 (\E f \in RatingInputs : add_rating(c, f[1], f[2], f[3]))
                 => users'[get_current_user(c)["user_id"]].trust_score
                       = users[get_current_user(c)["user_id"]].trust_score]_vars

----------------------------------------------------------------------------
(* C27: /login creates a session only when the posted password is the one  *)
(* stored for the username at registration; a request with the name of a   *)
(* user and another password creates no session and is answered with the   *)
(* invalid-username-or-password error.                                     *)
PasswordMatches(username, password) ==
    \E u \in UsersNamed(username) : users[u].password_hash = password

C27_PasswordChecked ==
    [][route' = LoginRoute =>
       \A f \in LoginInputs :
          (~PasswordMatches(f[1], f[2]) /\ login(f[1], f[2]))
          => /\ user_sessions' = user_sessions
             /\ response' = InvalidLogin]_vars

----------------------------------------------------------------------------
(* C28: once /admin/users/delete has deleted a user, a request that        *)
(* carries a session created for that user is not treated as logged in:    *)
(* get_current_user gives None for it, and the dashboard answers it with   *)
(* the login redirect.                                                     *)
SessionOfDeletedUser(c) ==
    /\ c \in DOMAIN user_sessions
    /\ user_sessions[c]["user_id"] \notin DOMAIN users

C28_DeletedUserLoggedOut ==
    /\ \A c \in Cookies : SessionOfDeletedUser(c) => get_current_user(c) = None
    /\ [][route' = DashboardRoute =>
             \A c \in Cookies :
                 (SessionOfDeletedUser(c) /\ dashboard(c))
                 => response' = LoginRequired]_vars

----------------------------------------------------------------------------
(* C29: in every state the trust_score and the role of each session entry  *)
(* are the trust score and the role the users table holds for the user of  *)
(* the session, also once ratings for the user have been recorded after    *)
(* the login.                                                              *)
C29_SessionFresh ==
    \A c \in DOMAIN user_sessions :
        user_sessions[c]["user_id"] \in DOMAIN users =>
            /\ user_sessions[c]["trust_score"]
                  = users[user_sessions[c]["user_id"]].trust_score
            /\ user_sessions[c]["role"] = users[user_sessions[c]["user_id"]].role

----------------------------------------------------------------------------
(* C30: a call of execute_raw_sql that has ended without raising has       *)
(* committed what its statement wrote, also when the statement returns     *)
(* rows; a call whose statement raised SQLAlchemyError has committed       *)
(* nothing and has raised.                                                 *)
C30_NoUncommittedReturn ==
    \A p \in Procs :
        txn[p].state = "closed" =>
            /\ (txn[p].result # "raised" /\ txn[p].row.writes # NoWrite)
                  => txn[p].committed
            /\ txn[p].row.fails => (txn[p].result = "raised" /\ ~txn[p].committed)

====
